---- MODULE Spec2Model ----
(***************************************************************************)
(* Model of fpv_auto_trimmer.py: process_videos runs detect_motion on each *)
(* video file of the input folder and, when a takeoff frame was found,     *)
(* trim_video.                                                             *)
(*                                                                         *)
(* A video is its metadata (fps, total: what cap.get reports) together     *)
(* with the number of frames that cap.read() can really deliver (len).     *)
(* A frame is [idx, val]: its position in the stream and a scalar image    *)
(* content.  calculate_motion runs OpenCV's optical flow, which is outside *)
(* the repository; it is modelled as the absolute displacement between the *)
(* contents of the reference and of the current frame.  The content of a   *)
(* frame is revealed when the frame is decoded.  Magnitudes are integers   *)
(* and the mean is compared with the threshold by cross-multiplication.    *)
(***************************************************************************)
EXTENDS Integers, Sequences, FiniteSets, TLC

\* ---- bounds of the model -------------------------------------------------
MaxFiles == 2
MaxFps == 1
MaxTotal == 8
MaxLen == 8

\* ---- program constants ---------------------------------------------------
SKIP_SECONDS == 4
FRAMES_PER_SECOND == 30
history_size == 5
motion_threshold == 8
None == -1
LoopStartMut == 1 - 1
LoopStart == 1

\* ---- inputs --------------------------------------------------------------
Mags == {0, 6, 20}

FreeVideos ==
  [fps : 0..MaxFps, total : 0..MaxTotal, len : 0..MaxLen,
   profile : {"free"}, k : {0}, v : {0}]

StepVideos ==
  [fps : {0, 30}, total : {0, 300}, len : {100, 300},
   profile : {"step"}, k : {150}, v : {20}]

Videos == FreeVideos \cup StepVideos

\* displacement of stream frame p against stream frame p - 1
Disp(vid, p) ==
  IF vid.profile = "free" THEN Mags
  ELSE {IF p >= vid.k THEN vid.v ELSE 0}

NoFrame == [idx |-> -1, val |-> 0]

VARIABLES
  pc,              \* position in process_videos / detect_motion / trim_video
  nFiles,          \* number of matching files os.listdir returned
  filesLeft,       \* files of the folder not yet processed
  scans,           \* number of detect_motion calls made so far
  report,          \* the outcome process_videos printed last
  video,           \* the file being processed
  capOpen,         \* detect_motion's VideoCapture is open (not released)
  pos,             \* read position of detect_motion's VideoCapture
  reads,           \* number of cap.read() calls of this scan
  skipped,         \* iterations done by skip_initial_setup_frames
  prev_gray,       \* the grayscale reference
  decoded,         \* contents of the frames decoded by this scan, in read order
  frame_num,       \* loop index of process_frames_for_takeoff
  motion_history,
  takeoff_frame,   \* local of process_frames_for_takeoff
  mags,            \* every magnitude calculate_motion returned in this scan
  progress,        \* frame_num of every print_progress call in this scan
  takeoff,         \* process_videos' takeoff (result of detect_motion)
  trimCapOpen,     \* trim_video's VideoCapture is open
  outOpen,         \* trim_video's VideoWriter is open
  outFps,          \* frame rate trim_video's VideoWriter was opened with
  trimPos,         \* read position of trim_video's VideoCapture
  trimI,           \* loop index of trim_video
  written          \* stream indices of the frames written by trim_video

vars == <<pc, nFiles, filesLeft, scans, report, video, capOpen, pos, reads,
          skipped, prev_gray, decoded, frame_num, motion_history,
          takeoff_frame, mags, progress, takeoff,
          trimCapOpen, outOpen, outFps, trimPos, trimI, written>>

scanVars == <<pos, reads, skipped, prev_gray, decoded, frame_num,
              motion_history, takeoff_frame, mags, progress>>
trimVars == <<trimCapOpen, outOpen, outFps, trimPos, trimI, written>>

\* ---- pure helpers --------------------------------------------------------
Max(a, b) == IF a >= b THEN a ELSE b
Min(a, b) == IF a <= b THEN a ELSE b
Abs(a) == IF a >= 0 THEN a ELSE 0 - a

RECURSIVE Sum(_)
Sum(s) == IF s = <<>> THEN 0 ELSE Head(s) + Sum(Tail(s))

\* get_video_metadata
get_video_metadata(vid) == <<vid.fps, vid.total>>

\* print_initial_status: total_frames / estimated_fps_processing
print_initial_status_raises(fps, total_frames) == FRAMES_PER_SECOND = 0

\* skip_initial_setup_frames: initial_skip_frames
InitialSkipFramesMutNoFps(fps) == SKIP_SECONDS
InitialSkipFramesMutConst(fps) == SKIP_SECONDS * FRAMES_PER_SECOND
InitialSkipFrames(fps) == SKIP_SECONDS * fps

\* calculate_motion: magnitude between the reference and the current frame
calculate_motion(ref, frame) == Abs(frame.val - ref.val)

\* print_progress: frame_num / total_frames and elapsed_time / frame_num
print_progress_raises(f, total_frames) == total_frames = 0 \/ f = 0

\* the progress test of the loop
ProgressDueMut(f) == (f + 1) % FRAMES_PER_SECOND = 0
ProgressDue(f) == f % FRAMES_PER_SECOND = 0

\* for frame_num in range(1, total_frames): the loop has a next iteration
LoopContinuesMut(f, total_frames) == f <= total_frames
LoopContinues(f, total_frames) == f < total_frames

\* motion_history.append(m); pop(0) when longer than history_size
AppendHistoryMut(h, m) ==
  IF Len(Append(h, m)) >= history_size THEN Tail(Append(h, m)) ELSE Append(h, m)
AppendHistory(h, m) ==
  IF Len(Append(h, m)) > history_size THEN Tail(Append(h, m)) ELSE Append(h, m)

\* avg_motion > motion_threshold, avg_motion = np.mean(motion_history)
AvgExceedsMutGeq(h, thr) == Sum(h) >= thr * Len(h)
AvgExceedsMutSum(h, thr) == Sum(h) > thr
AvgExceedsMutPadded(h, thr) == Sum(h) > thr * history_size
AvgExceeds(h, thr) == Sum(h) > thr * Len(h)

\* the guard of the assignment to takeoff_frame
TakeoffGuardMut(tf, h, thr) == AvgExceeds(h, thr)
TakeoffGuard(tf, h, thr) == tf = None /\ AvgExceeds(h, thr)

\* takeoff_frame after the decision of one iteration
DecideMut(tf, h, f, thr) ==
  IF TakeoffGuard(tf, h, thr) THEN f ELSE tf
DecideMutNoFloor(tf, h, f, thr) ==
  IF TakeoffGuard(tf, h, thr) THEN f - history_size ELSE tf
DecideMutAbsolute(tf, h, f, thr) ==
  IF TakeoffGuard(tf, h, thr) THEN Max(0, skipped + f - history_size) ELSE tf
Decide(tf, h, f, thr) ==
  IF TakeoffGuard(tf, h, thr) THEN Max(0, f - history_size) ELSE tf

\* prev_gray = gray at the end of an iteration (tf: takeoff_frame by then)
NextReferenceMut(ref, gray, tf) == IF tf = None THEN gray ELSE ref
NextReference(ref, gray, tf) == gray

\* the value the scan returns after the break on a failed read
BreakResultMut(tf) == None
BreakResult(tf) == tf

\* process_videos: "if takeoff is not None"
TrimWantedMut(t) == t # None /\ t # 0
TrimWanted(t) == t # None

\* process_videos: files left after the "Takeoff not detected" branch
AfterNotDetectedMut(n) == 0
AfterNotDetected(n) == n - 1

\* trim_video: the end of range(start_frame, ...) when end_frame is None
TrimEndMut(vid) == vid.total - 1
TrimEnd(vid) == vid.total

Last(s) == s[Len(s)]

\* ---- initial state -------------------------------------------------------
NoVideo == [fps |-> 0, total |-> 0, len |-> 0, profile |-> "free", k |-> 0, v |-> 0]

Init ==
  /\ pc = "for_file"
  /\ nFiles \in 1..MaxFiles
  /\ filesLeft = nFiles
  /\ scans = 0
  /\ report = ""
  /\ video = NoVideo
  /\ capOpen = FALSE
  /\ pos = 0
  /\ reads = 0
  /\ skipped = 0
  /\ prev_gray = NoFrame
  /\ decoded = <<>>
  /\ frame_num = LoopStart
  /\ motion_history = <<>>
  /\ takeoff_frame = None
  /\ mags = <<>>
  /\ progress = <<>>
  /\ takeoff = None
  /\ trimCapOpen = FALSE
  /\ outOpen = FALSE
  /\ outFps = 0
  /\ trimPos = 0
  /\ trimI = 0
  /\ written = <<>>

\* ---- process_videos: the for loop takes the next file --------------------
\* video_path and output_path are built for the next file of the list; what
\* the previous iteration left behind is gone
next_video_file ==
  /\ pc = "for_file"
  /\ filesLeft > 0
  /\ pc' = "call"
  /\ video' = NoVideo
  /\ pos' = 0
  /\ reads' = 0
  /\ skipped' = 0
  /\ prev_gray' = NoFrame
  /\ decoded' = <<>>
  /\ frame_num' = LoopStart
  /\ motion_history' = <<>>
  /\ takeoff_frame' = None
  /\ mags' = <<>>
  /\ progress' = <<>>
  /\ takeoff' = None
  /\ trimCapOpen' = FALSE
  /\ outOpen' = FALSE
  /\ outFps' = 0
  /\ trimPos' = 0
  /\ trimI' = 0
  /\ written' = <<>>
  /\ UNCHANGED <<nFiles, filesLeft, scans, report, capOpen>>

\* ---- detect_motion -------------------------------------------------------
\* detect_motion opens the capture of the file, reads the metadata and
\* prints the initial status.
detect_motion ==
  /\ pc = "call"
  /\ \E vid \in Videos :
       /\ video' = vid
       /\ pc' = IF print_initial_status_raises(get_video_metadata(vid)[1],
                                               get_video_metadata(vid)[2])
                THEN "raised" ELSE "skip"
  /\ scans' = scans + 1
  /\ capOpen' = TRUE
  /\ UNCHANGED <<nFiles, filesLeft, report, takeoff>>
  /\ UNCHANGED <<pos, reads, skipped, prev_gray, decoded, frame_num,
                 motion_history, takeoff_frame, mags, progress>>
  /\ UNCHANGED trimVars

\* one iteration of the loop of skip_initial_setup_frames, or its exit
skip_initial_setup_frames ==
  /\ pc = "skip"
  /\ IF skipped < InitialSkipFrames(video.fps)
     THEN /\ reads' = reads + 1
          /\ IF pos < video.len
             THEN /\ pos' = pos + 1
                  /\ skipped' = skipped + 1
                  /\ UNCHANGED <<pc, takeoff>>
             ELSE \* ret is False: return False; detect_motion returns None, None
                  /\ pc' = "returned"
                  /\ takeoff' = None
                  /\ UNCHANGED <<pos, skipped>>
     ELSE \* return True
          /\ pc' = "initial"
          /\ UNCHANGED <<pos, reads, skipped, takeoff>>
  /\ UNCHANGED <<nFiles, filesLeft, scans, report, video, capOpen, prev_gray,
                 decoded, frame_num, motion_history, takeoff_frame, mags, progress>>
  /\ UNCHANGED trimVars

\* get_initial_frame, then the locals of process_frames_for_takeoff
get_initial_frame ==
  /\ pc = "initial"
  /\ reads' = reads + 1
  /\ IF pos < video.len
     THEN /\ prev_gray' = [idx |-> pos, val |-> 0]
          /\ decoded' = <<0>>
          /\ pos' = pos + 1
          /\ motion_history' = <<>>
          /\ takeoff_frame' = None
          /\ frame_num' = LoopStart
          /\ pc' = "loop"
          /\ UNCHANGED takeoff
     ELSE \* prev_gray is None: detect_motion returns None, None
          /\ pc' = "returned"
          /\ takeoff' = None
          /\ UNCHANGED <<prev_gray, decoded, pos, motion_history,
                         takeoff_frame, frame_num>>
  /\ UNCHANGED <<nFiles, filesLeft, scans, report, video, capOpen, skipped,
                 mags, progress>>
  /\ UNCHANGED trimVars

\* one iteration of the loop of process_frames_for_takeoff; when the loop
\* ends (range exhausted or break) detect_motion releases the capture and
\* returns takeoff_frame
process_frames_for_takeoff ==
  /\ pc = "loop"
  /\ IF LoopContinues(frame_num, video.total)
     THEN IF ProgressDue(frame_num) /\ print_progress_raises(frame_num, video.total)
          THEN /\ pc' = "raised"
               /\ UNCHANGED <<capOpen, takeoff>>
               /\ UNCHANGED scanVars
          ELSE /\ progress' = IF ProgressDue(frame_num)
                              THEN Append(progress, frame_num) ELSE progress
               /\ reads' = reads + 1
               /\ IF pos < video.len
                  THEN \E d \in Disp(video, pos) :
                         LET frame == [idx |-> pos, val |-> Last(decoded) + d]
                             m == calculate_motion(prev_gray, frame)
                             h == AppendHistory(motion_history, m)
                             tf == Decide(takeoff_frame, h, frame_num, motion_threshold)
                         IN /\ pos' = pos + 1
                            /\ decoded' = Append(decoded, frame.val)
                            /\ mags' = Append(mags, m)
                            /\ motion_history' = h
                            /\ takeoff_frame' = tf
                            /\ prev_gray' = NextReference(prev_gray, frame, tf)
                            /\ frame_num' = frame_num + 1
                            /\ UNCHANGED <<pc, capOpen, takeoff>>
                  ELSE \* break
                       /\ pc' = "returned"
                       /\ capOpen' = FALSE
                       /\ takeoff' = BreakResult(takeoff_frame)
                       /\ UNCHANGED <<pos, decoded, mags, motion_history,
                                      takeoff_frame, prev_gray, frame_num>>
               /\ UNCHANGED skipped
     ELSE /\ pc' = "returned"
          /\ capOpen' = FALSE
          /\ takeoff' = takeoff_frame
          /\ UNCHANGED scanVars
  /\ UNCHANGED <<nFiles, filesLeft, scans, report, video>>
  /\ UNCHANGED trimVars

\* ---- process_videos after detect_motion returned -------------------------
\* takeoff is not None: trim_video opens its capture and its writer and
\* seeks to start_frame; otherwise "Takeoff not detected" is printed
process_videos ==
  /\ pc = "returned"
  /\ IF TrimWanted(takeoff)
     THEN /\ trimCapOpen' = TRUE
          /\ outOpen' = TRUE
          /\ outFps' = video.fps
          /\ trimPos' = takeoff
          /\ trimI' = takeoff
          /\ written' = <<>>
          /\ pc' = "trim"
          /\ UNCHANGED <<filesLeft, report>>
     ELSE /\ pc' = "for_file"
          /\ report' = "not_detected"
          /\ filesLeft' = AfterNotDetected(filesLeft)
          /\ UNCHANGED trimVars
  /\ UNCHANGED <<nFiles, scans, video, capOpen, takeoff>>
  /\ UNCHANGED scanVars

\* one iteration of the loop of trim_video, or its exit and the releases,
\* after which process_videos prints "Processed"
trim_video ==
  /\ pc = "trim"
  /\ IF trimI < TrimEnd(video) /\ trimPos < video.len
     THEN /\ written' = Append(written, trimPos)
          /\ trimPos' = trimPos + 1
          /\ trimI' = trimI + 1
          /\ UNCHANGED <<pc, filesLeft, report, trimCapOpen, outOpen>>
     ELSE /\ trimCapOpen' = FALSE
          /\ outOpen' = FALSE
          /\ pc' = "for_file"
          /\ report' = "processed"
          /\ filesLeft' = filesLeft - 1
          /\ UNCHANGED <<written, trimPos, trimI>>
  /\ UNCHANGED <<nFiles, scans, video, capOpen, takeoff, outFps>>
  /\ UNCHANGED scanVars

Next ==
  \/ next_video_file
  \/ detect_motion
  \/ skip_initial_setup_frames
  \/ get_initial_frame
  \/ process_frames_for_takeoff
  \/ process_videos
  \/ trim_video

Spec == Init /\ [][Next]_vars

TypeOK ==
  /\ pc \in {"for_file", "call", "skip", "initial", "loop", "returned", "trim", "raised"}
  /\ filesLeft \in 0..MaxFiles
  /\ video \in Videos \cup {NoVideo}
  /\ capOpen \in BOOLEAN
  /\ takeoff_frame \in Nat \cup {None}
  /\ takeoff \in Nat \cup {None}
  /\ report \in {"", "processed", "not_detected"}

\* ---- the stream used by the end-to-end property ---------------------------
E2EVideo ==
  [fps |-> 30, total |-> 300, len |-> 300, profile |-> "step", k |-> 150, v |-> 20]

\* ---- the decision rule stated on the whole magnitude sequence -------------
\* the mean of the last min(f, H) magnitudes up to loop frame f exceeds the threshold
WindowExceeds(ms, f) ==
  LET n == Min(f, history_size)
  IN Sum(SubSeq(ms, f - n + 1, f)) > motion_threshold * n

Crossings(ms) == {f \in 1..Len(ms) : WindowExceeds(ms, f)}

FirstCrossing(ms) ==
  LET cr == Crossings(ms)
  IN CHOOSE f \in cr : \A g \in cr : f <= g

AllBelow(ms) == \A i \in 1..Len(ms) : ms[i] < motion_threshold

\* below the threshold before loop frame k, one constant value above it from k on
IsStep(ms, k) ==
  /\ k \in 1..Len(ms)
  /\ ms[k] > motion_threshold
  /\ \A i \in 1..(k - 1) : ms[k - i] < motion_threshold
  /\ \A i \in k..Len(ms) : ms[i] = ms[k]

\* C1: when the scan returns, the event index is unset if the rolling average
\* never strictly exceeded the threshold, and otherwise it is max(0, f* - H)
\* for the first loop frame f* whose rolling average strictly exceeds it.
C1_DecisionRule ==
  pc = "returned" =>
    takeoff = IF Crossings(mags) = {} THEN None
              ELSE Max(0, FirstCrossing(mags) - history_size)

C1_Witness ==
  /\ pc = "returned"
  /\ video.profile = "free"
  /\ takeoff = 2
  /\ Len(mags) = 7
  /\ Sum(SubSeq(mags, 2, 6)) = motion_threshold * history_size

\* C2: while every magnitude of the scan is strictly below the threshold the
\* event index is unset, in every state of the scan and in its result.
C2_NeverSetBelowThreshold ==
  AllBelow(mags) => takeoff_frame = None /\ takeoff = None

C2_Witness ==
  /\ pc = "returned"
  /\ Len(mags) >= history_size + 1
  /\ AllBelow(mags)
  /\ Sum(mags) > motion_threshold * history_size
  /\ takeoff = None

\* C3: once the event index is set, no later step of the same scan changes it.
C3_WriteOnce ==
  [][(takeoff_frame # None /\ pc # "for_file") => takeoff_frame' = takeoff_frame]_vars

\* the rolling average crossed, fell back and crossed again
C3_Witness ==
  /\ pc = "loop"
  /\ takeoff_frame = 0
  /\ \E f, g, h \in 1..Len(mags) :
       /\ f < g /\ g < h /\ h = Len(mags)
       /\ WindowExceeds(mags, f)
       /\ ~WindowExceeds(mags, g)
       /\ WindowExceeds(mags, h)

\* C4 as stated: the end-to-end scan of the 300-frame stream returns 150 - 5.
C4_Original ==
  (pc = "returned" /\ video = E2EVideo) => takeoff = 150 - history_size

\* C4: the end-to-end scan of the 300-frame stream (static up to frame 149,
\* magnitude 20 from frame 150) returns 32 - H = 27: loop frame 1 is stream
\* frame 121 and the rolling average first exceeds 8 at loop frame 32.
C4_EndToEnd ==
  (pc = "returned" /\ video = E2EVideo) =>
    /\ takeoff = 32 - history_size
    /\ FirstCrossing(mags) = 32
    /\ skipped + 32 = 152

C4_Witness ==
  /\ pc = "returned"
  /\ video = E2EVideo
  /\ takeoff # None
  /\ Len(mags) = 300 - 121

\* C5 as stated: for a step at loop frame k the event index is max(0, k - H).
C5_Original ==
  \A k \in 1..Len(mags) :
    (IsStep(mags, k) /\ takeoff_frame # None) => takeoff_frame = Max(0, k - history_size)

\* C5: for a step at loop frame k the event index is set at the first frame
\* f* whose rolling average exceeds the threshold, k <= f* <= k + H - 1, it is
\* max(0, f* - H), and it keeps that value while the step continues.
C5_StepInput ==
  \A k \in 1..Len(mags) :
    IsStep(mags, k) =>
      LET cr == Crossings(mags)
      IN /\ \A f \in cr : f >= k
         /\ Len(mags) >= k + history_size - 1 => cr # {}
         /\ cr = {} => takeoff_frame = None
         /\ cr # {} =>
              /\ FirstCrossing(mags) <= k + history_size - 1
              /\ takeoff_frame = Max(0, FirstCrossing(mags) - history_size)

C5_Witness ==
  /\ pc = "loop"
  /\ video.profile = "free"
  /\ IsStep(mags, 4)
  /\ Len(mags) = 7
  /\ takeoff_frame = 1

\* C6 as stated: every handle is released when its operation has ended: the
\* scan's capture once detect_motion has returned, trim_video's capture and
\* writer once trim_video has returned.
C6_HandlesReleased ==
  /\ pc \in {"returned", "trim", "for_file"} => ~capOpen
  /\ pc \in {"for_file", "call", "skip", "initial", "loop", "returned"} =>
       (~trimCapOpen /\ ~outOpen)

\* C7: the skip loop consumes exactly SKIP_SECONDS * fps frames, none of which
\* is analysed: the reference is the frame right after them and the first
\* analysed transition is the one into the frame after the reference.
C7_SkipCount ==
  /\ pc = "skip" => (pos = skipped /\ skipped <= SKIP_SECONDS * video.fps
                     /\ mags = <<>> /\ motion_history = <<>>)
  /\ pc = "initial" => (pos = SKIP_SECONDS * video.fps
                        /\ mags = <<>> /\ motion_history = <<>>)
  /\ pc = "loop" => /\ skipped = SKIP_SECONDS * video.fps
                    /\ prev_gray.idx = skipped + Len(mags)
                    /\ pos = skipped + 1 + Len(mags)
                    /\ Len(mags) = frame_num - 1

C7_Witness ==
  /\ pc = "loop"
  /\ video.fps = 30
  /\ skipped = 120
  /\ Len(mags) = 1
  /\ prev_gray.idx = 121

\* C8: a stream that ends during the skip or at the read of the reference
\* makes the scan return "not found" without an error, without an analysed
\* transition and with an untouched history.
C8_ShortStream ==
  video.len <= SKIP_SECONDS * video.fps =>
    /\ pc # "raised"
    /\ pc # "loop"
    /\ mags = <<>>
    /\ motion_history = <<>>
    /\ prev_gray = NoFrame
    /\ takeoff_frame = None
    /\ takeoff = None

C8_Witness ==
  /\ pc = "for_file"
  /\ video.fps = 30
  /\ video.len = 100
  /\ skipped = 100
  /\ takeoff = None
  /\ written = <<>>

\* C9: no division of the scan has a zero denominator, also for fps = 0 and
\* total = 0: no step of a scan raises.
C9_NoZeroDivision ==
  pc # "raised"

C9_Witness ==
  /\ pc = "returned"
  /\ video.fps = 0
  /\ video.total > 0
  /\ Len(progress) > 1

\* C10: the history never holds more than H magnitudes, and holds exactly H
\* once H or more have been appended.
C10_HistoryBounded ==
  /\ Len(motion_history) <= history_size
  /\ Len(mags) >= history_size => Len(motion_history) = history_size

C10_Witness ==
  /\ pc = "loop"
  /\ Len(mags) = history_size + 2
  /\ Len(motion_history) = history_size

\* the last min(n, H) elements of ms, in order
LastWindow(ms) ==
  SubSeq(ms, Len(ms) - Min(Len(ms), history_size) + 1, Len(ms))

\* C11: after n magnitudes the history is the most recent min(n, H) of them
\* in arrival order, and the average tested against the threshold is the mean
\* of exactly those values: the event index is set exactly when the mean of
\* the values held at some frame exceeded the threshold, during warm-up the
\* mean of the n samples seen so far.
C11_HistoryIsLastWindow ==
  /\ motion_history = LastWindow(mags)
  /\ (takeoff_frame # None) <=>
       (\E f \in 1..Len(mags) :
          Sum(SubSeq(mags, f - Min(f, history_size) + 1, f))
            > motion_threshold * Min(f, history_size))

\* set during warm-up by a mean that a zero-padded window would not reach,
\* and the oldest values have been evicted since
C11_Witness ==
  /\ pc = "loop"
  /\ Len(mags) = history_size + 2
  /\ mags[1] > motion_threshold
  /\ mags[1] < motion_threshold * history_size
  /\ Sum(mags) = mags[1] + mags[Len(mags)]
  /\ mags[Len(mags)] > 0
  /\ takeoff_frame = 0
  /\ motion_history # SubSeq(mags, 1, history_size)

\* C12: when a read fails in the analysis loop the scan returns at once the
\* event index determined so far, without raising and without another read;
\* once the scan has returned its capture is not read again.
C12_MidStreamFailure ==
  [][/\ (pc = "loop" /\ LoopContinues(frame_num, video.total) /\ pos >= video.len) =>
          /\ pc' = "returned"
          /\ takeoff' = takeoff_frame
          /\ takeoff_frame' = takeoff_frame
          /\ reads' = reads + 1
          /\ pos' = pos
          /\ mags' = mags
     /\ (pc \in {"returned", "trim"}) =>
          /\ reads' = reads
          /\ pos' = pos
          /\ takeoff' = takeoff
          /\ pc' # "raised"]_vars

\* the read of loop frame 7 failed after the event index had been set to 1
C12_Witness ==
  /\ pc = "returned"
  /\ prev_gray # NoFrame
  /\ reads = pos + 1
  /\ frame_num < video.total
  /\ Len(mags) = frame_num - 1
  /\ takeoff = 1
  /\ ~capOpen

\* ---- trim_video called with any start frame ------------------------------
\* start frames tried for a video: the small ones and the one of the
\* documented example
TrimStarts(vid) == {t \in 0..vid.total : t <= MaxTotal \/ t = 145}

\* process_videos holds the result of a scan and is about to call trim_video
InitTrim ==
  /\ pc = "returned"
  /\ nFiles = 1
  /\ filesLeft = 1
  /\ scans = 1
  /\ report = ""
  /\ video \in Videos
  /\ takeoff \in TrimStarts(video)
  /\ capOpen = FALSE
  /\ pos = 0
  /\ reads = 0
  /\ skipped = 0
  /\ prev_gray = NoFrame
  /\ decoded = <<>>
  /\ frame_num = LoopStart
  /\ motion_history = <<>>
  /\ takeoff_frame = takeoff
  /\ mags = <<>>
  /\ progress = <<>>
  /\ trimCapOpen = FALSE
  /\ outOpen = FALSE
  /\ outFps = 0
  /\ trimPos = 0
  /\ trimI = 0
  /\ written = <<>>

NextTrim ==
  \/ process_videos
  \/ trim_video

SpecTrim == InitTrim /\ [][NextTrim]_vars

\* C13: trim_video with start frame s and no end frame, on a stream whose N
\* frames are all readable, writes exactly the frames s..N-1 in source order
\* (N - s frames), through a writer opened at the input's frame rate.
C13_TrimFrameCount ==
  /\ pc = "trim" => (outOpen /\ outFps = video.fps)
  /\ (pc = "for_file" /\ report = "processed" /\ video.len = video.total) =>
       /\ Len(written) = video.total - takeoff
       /\ \A i \in 1..Len(written) : written[i] = takeoff + i - 1
       /\ outFps = video.fps
       /\ ~outOpen /\ ~trimCapOpen

C13_Witness ==
  /\ pc = "for_file"
  /\ report = "processed"
  /\ video.total = 300
  /\ video.len = 300
  /\ video.fps = 30
  /\ takeoff = 145
  /\ Len(written) = 155
  /\ written[1] = 145
  /\ written[155] = 299

\* C14: a file whose scan found no event is not trimmed and is reported as
\* "not detected" without an error, and the loop goes on: every file of the
\* folder is scanned exactly once.
C14_PerFileOutcome ==
  /\ pc # "raised"
  /\ pc \in {"for_file", "call"} => scans = nFiles - filesLeft
  /\ pc \notin {"for_file", "call"} => scans = nFiles - filesLeft + 1
  /\ pc # "for_file" => filesLeft >= 1
  /\ (pc = "for_file" /\ filesLeft = 0) => scans = nFiles
  /\ (pc = "for_file" /\ scans > 0 /\ takeoff = None) =>
       /\ report = "not_detected"
       /\ written = <<>>
       /\ outFps = 0
       /\ ~trimCapOpen /\ ~outOpen
  /\ (pc = "for_file" /\ report = "not_detected") => takeoff = None
  /\ pc = "trim" => takeoff # None

\* the first file was reported as not detected and the second one has been
\* scanned and trimmed
C14_Witness ==
  /\ nFiles = 2
  /\ scans = 2
  /\ pc = "trim"
  /\ report = "not_detected"
  /\ written # <<>>

\* C15: unset and 0 are told apart from the scan to the trim: a scan whose
\* first crossing is at a loop frame f <= H returns 0, process_videos then
\* calls trim_video with start frame 0, and "not detected" is reported only
\* for a scan whose rolling average never crossed the threshold.
C15_UnsetIsNotZero ==
  /\ (pc \in {"returned", "trim"}
        /\ \E f \in 1..Min(Len(mags), history_size) : WindowExceeds(mags, f)) =>
       (takeoff = 0 /\ takeoff # None)
  /\ (pc = "trim" /\ takeoff = 0) =>
       /\ trimI = Len(written)
       /\ trimPos = Len(written)
       /\ \A i \in 1..Len(written) : written[i] = i - 1
  /\ (pc = "for_file" /\ scans > 0 /\ report # "processed") =>
       ~(\E f \in 1..Len(mags) : WindowExceeds(mags, f))
  /\ (pc = "for_file" /\ report = "not_detected") =>
       ~(\E f \in 1..Len(mags) : WindowExceeds(mags, f))

C15_Witness ==
  /\ pc = "for_file"
  /\ report = "processed"
  /\ takeoff = 0
  /\ Crossings(mags) # {}
  /\ FirstCrossing(mags) = history_size
  /\ written # <<>>
  /\ written[1] = 0

\* C16: there is one reference, it is the frame of the immediately preceding
\* read, and every magnitude is computed between that frame and the frame
\* just read; the reference is replaced in every iteration, also after the
\* event index has been set.
C16_ReferenceHandOff ==
  /\ prev_gray = NoFrame => (decoded = <<>> /\ mags = <<>>)
  /\ prev_gray # NoFrame =>
       /\ Len(decoded) = Len(mags) + 1
       /\ prev_gray.idx = pos - 1
       /\ prev_gray.idx = skipped + Len(mags)
       /\ prev_gray.val = Last(decoded)
       /\ \A i \in 1..Len(mags) : mags[i] = Abs(decoded[i + 1] - decoded[i])

\* frames kept moving after the event index had been set at the first frame
C16_Witness ==
  /\ pc = "loop"
  /\ takeoff_frame = 0
  /\ Len(mags) = 4
  /\ mags[1] > motion_threshold
  /\ mags[3] > 0
  /\ mags[4] > 0
  /\ mags[4] < motion_threshold
  /\ prev_gray.val = decoded[5]
  /\ prev_gray.val > decoded[2]

\* loop iterations of this scan that issued their read
LoopReads == IF prev_gray = NoFrame THEN 0 ELSE reads - skipped - 1

ProgressFrames == {progress[i] : i \in 1..Len(progress)}

\* C17 as stated: progress is emitted exactly for the analysed frames whose
\* index is a positive multiple of the stream's frame rate.
C17_Original ==
  ProgressFrames =
    {f \in 1..Len(mags) : video.fps > 0 /\ f % video.fps = 0}

\* C17: progress is emitted exactly for the loop iterations whose index is a
\* positive multiple of FRAMES_PER_SECOND (30, whatever the stream's frame
\* rate), at the start of the iteration, before its frame is read: also for
\* an iteration whose read then fails.
C17_ProgressCadence ==
  /\ Len(progress) * FRAMES_PER_SECOND <= LoopReads
  /\ LoopReads < (Len(progress) + 1) * FRAMES_PER_SECOND
  /\ \A i \in 1..Len(progress) : progress[i] = i * FRAMES_PER_SECOND
  /\ Len(mags) <= LoopReads
  /\ LoopReads <= Len(mags) + 1

\* progress was printed for loop frame 180, whose read then failed
C17_Witness ==
  /\ pc = "returned"
  /\ video = [fps |-> 30, total |-> 300, len |-> 300, profile |-> "step", k |-> 150, v |-> 20]
  /\ Len(mags) = 179
  /\ LoopReads = 180
  /\ Len(progress) = 6
  /\ progress[6] = 180

\* C18: the frame index of the decision rule counts the frames read after
\* the reference: when the crossing is seen on the frame at stream position
\* p and K frames were skipped, the event index is max(0, p - K - H); that
\* value is returned and is the absolute position trim_video seeks to.
C18_RelativeIndex ==
  /\ [][(pc = "loop" /\ takeoff_frame = None /\ takeoff_frame' # None) =>
          /\ prev_gray'.idx = pos
          /\ prev_gray'.idx = skipped + frame_num
          /\ takeoff_frame' = Max(0, prev_gray'.idx - skipped - history_size)]_vars
  /\ [](pc \in {"returned", "trim"} /\ prev_gray # NoFrame => takeoff = takeoff_frame)
  /\ [](pc = "trim" => /\ trimPos = takeoff + Len(written)
                       /\ \A i \in 1..Len(written) : written[i] = takeoff + i - 1)

\* 120 frames skipped, crossing seen at stream position 152, trim from 27
C18_Witness ==
  /\ pc = "trim"
  /\ skipped = 120
  /\ FirstCrossing(mags) + skipped = 152
  /\ takeoff = 27
  /\ Len(written) = 2
  /\ written[1] = 27

\* ---- the scan under the scheduling of a sequential program ----------------
\* the interpreter always executes the next statement: some step is taken
\* whenever one is possible; a folder with one file, scans being independent
InitOne == Init /\ nFiles = 1

FairSpec == InitOne /\ [][Next]_vars /\ WF_vars(Next)

\* frames left in the stream after the skipped frames and the reference
Remaining == Max(0, video.len - SKIP_SECONDS * video.fps - 1)

\* C19 as stated: the number of analysed transitions of a finished scan is
\* min(total_frame_count - 1, frames remaining after skip and reference).
C19_Original ==
  pc = "returned" => Len(mags) = Min(video.total - 1, Remaining)

\* C19: every scan returns; it makes at most fps * SKIP_SECONDS skip reads,
\* one reference read and at most max(0, total - 1) loop iterations, and the
\* number of analysed transitions is max(0, min(total - 1, frames remaining
\* after the skip and the reference)).
C19_Termination ==
  /\ [](/\ skipped <= SKIP_SECONDS * video.fps
        /\ LoopReads <= Max(0, video.total - 1)
        /\ reads <= SKIP_SECONDS * video.fps + 1 + Max(0, video.total - 1)
        /\ reads <= skipped + 1 + LoopReads)
  /\ [](pc = "returned" =>
          Len(mags) = Max(0, Min(video.total - 1, Remaining)))
  /\ (pc \in {"skip", "initial", "loop"}) ~> (pc = "returned")

\* the metadata announce fewer frames than the stream holds: the loop ends
\* by exhausting its range
C19_Witness ==
  /\ pc = "returned"
  /\ video.fps = 1
  /\ video.total = 3
  /\ video.len = MaxLen
  /\ Len(mags) = 2
  /\ reads = SKIP_SECONDS + 1 + 2

\* C20: a set event index is a frame index of the stream, 0 <= index <
\* total_frame_count, it is at most f - 1 for the loop frame f that set it,
\* and it is only ever set when total_frame_count >= 2.
C20_ValidIndex ==
  /\ [](takeoff_frame # None =>
          (0 <= takeoff_frame /\ takeoff_frame < video.total /\ video.total >= 2))
  /\ [](takeoff # None =>
          (0 <= takeoff /\ takeoff < video.total /\ video.total >= 2))
  /\ [][(pc = "loop" /\ takeoff_frame = None /\ takeoff_frame' # None) =>
          /\ takeoff_frame' <= frame_num - 1
          /\ 1 <= frame_num
          /\ frame_num <= video.total - 1]_vars

\* set at the last frame the loop can reach
C20_Witness ==
  /\ pc = "returned"
  /\ video.profile = "free"
  /\ takeoff = video.total - 1 - history_size
  /\ takeoff > 0
  /\ FirstCrossing(mags) = video.total - 1
====
